---- MODULE Spec2Model ----
(***************************************************************************)
(* essay-pipeline: the frontmatter validator (src/src/validator.py), the   *)
(* schema loader (src/src/schema_loader.py) and the indexer                *)
(* (src/src/indexer.py).                                                   *)
(*                                                                         *)
(* Representation.  A Python str is a sequence of one-character strings.   *)
(* A metadata value (what yaml.safe_load yields for one field) is a record *)
(* [t, s, n, l]: t is type(value).__name__, s the characters of a str, n   *)
(* the number of an int or a bool (True is 1, False is 0, as in Python),   *)
(* l the items of a list.  A dict is a function; a key is present when it  *)
(* is in the DOMAIN; the keys of a metadata mapping are str as above (the  *)
(* code also tests them against scalar metadata, character by character),  *)
(* the keys of a schema and of a field specification are plain strings.    *)
(* A regular expression is restricted to a literal                         *)
(* without metacharacters, so re.match(p, v) is "p is a prefix of v".      *)
(* A call either returns ([ok |-> TRUE, val |-> ...]) or raises            *)
(* ([ok |-> FALSE, exc |-> <exception class>]).                            *)
(***************************************************************************)
EXTENDS Integers, Sequences, FiniteSets, TLC

VARIABLES
    fvalue,      \* validate_field: the value argument
    fspec,       \* validate_field: the spec argument
    fresult,     \* validate_field: what the call returned (NotCalled before)
    edoc,        \* validate_essay: the document at filepath, [name, text]
    eschema,     \* validate_essay: the schema argument
    eresult,     \* validate_essay: what the call returned
    essays,      \* build_essays_index: the essays argument
    index,       \* build_essays_index: what the call returned
    posts,       \* the posts directory: filename -> text of the *.md file
    schemaFile,  \* the schema path: what is on disk there
    out,         \* the output directory: the three index files
    today,       \* date.today()
    vres,        \* validate_all: outcome of the last call on this directory
    vio,         \* validate_all: the file-system accesses of that call
    ires,        \* index_all: outcome of the last call on this directory
    iio          \* index_all: the file-system accesses of that call

vars == <<fvalue, fspec, fresult, edoc, eschema, eresult, essays, index,
          posts, schemaFile, out, today, vres, vio, ires, iio>>

fieldVars == <<fvalue, fspec, fresult>>
essayVars == <<edoc, eschema, eresult>>
indexVars == <<essays, index>>
sysVars == <<posts, schemaFile, out, today, vres, vio, ires, iio>>
pureVars == <<fieldVars, essayVars, indexVars>>

(***************************************************************************)
(* Bounds of the model.                                                    *)
(***************************************************************************)
MaxLen == 2      \* longest str value drawn as an input
MaxItems == 2    \* longest list value drawn as an input
MaxInt == 2      \* largest int value / minimum drawn as an input
MaxEssays == 2   \* most essays handed to build_essays_index
MaxDay == 1      \* date.today() ranges over 0..MaxDay

Dict0 == [k \in {} |-> 0]

\* the outcome of a call: it returned val, or it raised exc
Ret(v) == [ok |-> TRUE, val |-> v, exc |-> ""]
Raise(e) == [ok |-> FALSE, val |-> <<>>, exc |-> e]
NotCalled == Raise("not called")
Called(r) == r.exc # "not called"

(***************************************************************************)
(* Metadata values.                                                        *)
(***************************************************************************)
Char == {"a", "@", "t"}

RECURSIVE StrsUpTo(_)
StrsUpTo(n) ==
    IF n = 0 THEN {<<>>}
    ELSE LET shorter == StrsUpTo(n - 1)
         IN  shorter \cup {Append(s, c) : s \in shorter, c \in Char}

PyStr(chars) == [t |-> "str", s |-> chars, n |-> 0, l |-> <<>>]
PyInt(i) == [t |-> "int", s |-> <<>>, n |-> i, l |-> <<>>]
PyBool(b) == [t |-> "bool", s |-> <<>>, n |-> IF b THEN 1 ELSE 0, l |-> <<>>]
PyList(items) == [t |-> "list", s |-> <<>>, n |-> 0, l |-> items]
PyNone == [t |-> "NoneType", s |-> <<>>, n |-> 0, l |-> <<>>]
\* a datetime.date, what safe_load makes of an unquoted YAML timestamp
PyDate(day) == [t |-> "date", s |-> <<>>, n |-> day, l |-> <<>>]

IsInstanceStr(v) == v.t = "str"
\* bool is a subclass of int
IsInstanceInt(v) == v.t \in {"int", "bool"}
IsInstanceBool(v) == v.t = "bool"
IsInstanceList(v) == v.t = "list"
TypeName(v) == v.t

StrValues == {PyStr(s) : s \in StrsUpTo(MaxLen)}
IntValues == {PyInt(i) : i \in -1..MaxInt}
BoolValues == {PyBool(b) : b \in BOOLEAN}
Items == {PyStr(<<"a">>), PyStr(<<"@", "a">>), PyInt(1)}

RECURSIVE SeqsUpTo(_, _)
SeqsUpTo(S, n) ==
    IF n = 0 THEN {<<>>}
    ELSE LET shorter == SeqsUpTo(S, n - 1)
         IN  shorter \cup {Append(q, x) : q \in shorter, x \in S}

ListValues == {PyList(q) : q \in SeqsUpTo(Items, MaxItems)}
Values == StrValues \cup IntValues \cup BoolValues \cup ListValues \cup {PyNone}

(***************************************************************************)
(* Field specifications: dicts with optional keys.                         *)
(***************************************************************************)
Opt(key, S) == {Dict0} \cup {key :> x : x \in S}

EnumA == <<PyStr(<<"a">>)>>
EnumAB == <<PyStr(<<"a">>), PyStr(<<"@", "a">>)>>
PatternAt == <<"@">>

StringSpecs ==
    {("type" :> "string") @@ e @@ mn @@ mx @@ p :
        e \in Opt("enum", {EnumA, EnumAB}),
        mn \in Opt("min_length", {1, 2}),
        mx \in Opt("max_length", {1}),
        p \in Opt("pattern", {PatternAt})}
IntegerSpecs ==
    {("type" :> "integer") @@ mn : mn \in Opt("min", 0..MaxInt)}
ListSpecs ==
    {("type" :> "list") @@ mn @@ mx @@ it @@ ip :
        mn \in Opt("min_items", {1, 2}),
        mx \in Opt("max_items", {1}),
        it \in Opt("item_type", {"string"}),
        ip \in Opt("item_pattern", {PatternAt})}
OtherSpecs == {"type" :> "float", Dict0}
FieldSpecs == StringSpecs \cup IntegerSpecs \cup ListSpecs \cup OtherSpecs

(***************************************************************************)
(* Error strings.  One record shape for every message; the fields a        *)
(* message does not interpolate keep their blank value.                    *)
(*   outer: the text validate_essay / validate_all puts around it          *)
(*   kind:  the text validate_field produces                               *)
(***************************************************************************)
BlankErr ==
    [outer |-> "", file |-> "", field |-> <<>>, kind |-> "", got |-> "",
     allowed |-> <<>>, value |-> PyNone, len |-> 0, lim |-> 0, idx |-> 0,
     pattern |-> <<>>]

ExpectedErr(expected, v) ==
    [BlankErr EXCEPT !.kind = "expected " \o expected \o ", got", !.got = TypeName(v)]
EnumErr(enum, v) ==
    [BlankErr EXCEPT !.kind = "must be one of", !.allowed = enum, !.value = v]
TooShortErr(n, min) ==
    [BlankErr EXCEPT !.kind = "too short", !.len = n, !.lim = min]
TooLongErr(n, max) ==
    [BlankErr EXCEPT !.kind = "too long", !.len = n, !.lim = max]
PatternErr(p) ==
    [BlankErr EXCEPT !.kind = "does not match pattern", !.pattern = p]
BelowMinErr(v, min) ==
    [BlankErr EXCEPT !.kind = "below minimum", !.value = v, !.lim = min]
TooFewErr(n, min) ==
    [BlankErr EXCEPT !.kind = "too few items", !.len = n, !.lim = min]
TooManyErr(n, max) ==
    [BlankErr EXCEPT !.kind = "too many items", !.len = n, !.lim = max]
ItemTypeErr(i, item) ==
    [BlankErr EXCEPT !.kind = "item expected string, got", !.idx = i,
                     !.got = TypeName(item)]
ItemPatternErr(i, item, p) ==
    [BlankErr EXCEPT !.kind = "item does not match pattern", !.idx = i,
                     !.value = item, !.pattern = p]

(***************************************************************************)
(* validate_field                                                          *)
(***************************************************************************)
\* re.match(pattern, chars) for a literal pattern: a match at the start
ReMatch(pattern, chars) ==
    /\ Len(pattern) <= Len(chars)
    /\ \A i \in 1..Len(pattern) : chars[i] = pattern[i]

\* value in enum (list membership by ==)
InList(v, list) == \E i \in 1..Len(list) : list[i] = v

Get(d, key, default) == IF key \in DOMAIN d THEN d[key] ELSE default

If(cond, errs) == IF cond THEN errs ELSE <<>>

StringIsMistyped(value) == ~IsInstanceStr(value)

\* as StringChecks, without the enum check
StringChecksNoEnum(value, spec) ==
    If("min_length" \in DOMAIN spec /\ Len(value.s) < spec["min_length"],
       <<TooShortErr(Len(value.s), spec["min_length"])>>)
    \o If("max_length" \in DOMAIN spec /\ Len(value.s) > spec["max_length"],
          <<TooLongErr(Len(value.s), spec["max_length"])>>)
    \o If("pattern" \in DOMAIN spec /\ ~ReMatch(spec["pattern"], value.s),
          <<PatternErr(spec["pattern"])>>)

StringChecks(value, spec) ==
    If("enum" \in DOMAIN spec /\ ~InList(value, spec["enum"]),
       <<EnumErr(spec["enum"], value)>>)
    \o If("min_length" \in DOMAIN spec /\ Len(value.s) < spec["min_length"],
          <<TooShortErr(Len(value.s), spec["min_length"])>>)
    \o If("max_length" \in DOMAIN spec /\ Len(value.s) > spec["max_length"],
          <<TooLongErr(Len(value.s), spec["max_length"])>>)
    \o If("pattern" \in DOMAIN spec /\ ~ReMatch(spec["pattern"], value.s),
          <<PatternErr(spec["pattern"])>>)

\* as IntegerIsMistyped, without the exclusion of bool
IntegerIsMistypedBoolPasses(value) == ~IsInstanceInt(value)

IntegerIsMistyped(value) == ~IsInstanceInt(value) \/ IsInstanceBool(value)

IntegerChecks(value, spec) ==
    If("min" \in DOMAIN spec /\ value.n < spec["min"],
       <<BelowMinErr(value, spec["min"])>>)

\* the body of the loop over enumerate(value); i is the 0-based index
ItemCheck(i, item, item_type, item_pattern) ==
    IF item_type = "string" /\ ~IsInstanceStr(item)
        THEN <<ItemTypeErr(i, item)>>
    ELSE IF item_pattern # <<>> /\ IsInstanceStr(item)
            /\ ~ReMatch(item_pattern, item.s)
        THEN <<ItemPatternErr(i, item, item_pattern)>>
    ELSE <<>>

RECURSIVE ItemChecks(_, _, _, _)
ItemChecks(items, k, item_type, item_pattern) ==
    IF k > Len(items) THEN <<>>
    ELSE ItemCheck(k - 1, items[k], item_type, item_pattern)
         \o ItemChecks(items, k + 1, item_type, item_pattern)

ListChecks(value, spec) ==
    If("min_items" \in DOMAIN spec /\ Len(value.l) < spec["min_items"],
       <<TooFewErr(Len(value.l), spec["min_items"])>>)
    \o If("max_items" \in DOMAIN spec /\ Len(value.l) > spec["max_items"],
          <<TooManyErr(Len(value.l), spec["max_items"])>>)
    \o ItemChecks(value.l, 1, Get(spec, "item_type", ""),
                  Get(spec, "item_pattern", <<>>))

validate_field(field_name, value, spec) ==
    LET field_type == Get(spec, "type", "")
    IN  IF field_type = "string" THEN
            IF StringIsMistyped(value) THEN <<ExpectedErr("string", value)>>
            ELSE StringChecks(value, spec)
        ELSE IF field_type = "integer" THEN
            IF IntegerIsMistyped(value) THEN <<ExpectedErr("integer", value)>>
            ELSE IntegerChecks(value, spec)
        ELSE IF field_type = "list" THEN
            IF ~IsInstanceList(value) THEN <<ExpectedErr("list", value)>>
            ELSE ListChecks(value, spec)
        ELSE <<>>

(***************************************************************************)
(* Document text.  A text is a sequence of whitespace-separated chunks:    *)
(* the delimiter "---", a YAML source (carried with what yaml.safe_load    *)
(* makes of it), a prose word, a run of markdown punctuation, a URL.       *)
(* What safe_load makes of a source is [t, d, v]: t is the type name of    *)
(* the loaded object (or "YAMLError" when the parse raises), d the mapping *)
(* when it is a dict, v the value otherwise.                               *)
(***************************************************************************)
LoadedDict(d) == [t |-> "dict", d |-> d, v |-> PyNone]
LoadedValue(v) == [t |-> v.t, d |-> Dict0, v |-> v]
LoadedNone == LoadedValue(PyNone)
LoadRaises == [t |-> "YAMLError", d |-> Dict0, v |-> PyNone]

Delim == [tok |-> "---", load |-> LoadedNone]
Yaml(load) == [tok |-> "yaml", load |-> load]
Word == [tok |-> "word", load |-> LoadedNone]
Markup == [tok |-> "markup", load |-> LoadedNone]
Url == [tok |-> "url", load |-> LoadedNone]

StartsWithDelim(text) == Len(text) >= 1 /\ text[1] = Delim

\* index of the second "---" of a text that starts with one; 0 when none
SecondDelim(text) ==
    LET later == {i \in 2..Len(text) : text[i] = Delim}
    IN  IF later = {} THEN 0
        ELSE CHOOSE i \in later : \A j \in later : i <= j

\* text.split("---", 2): parts[1] and parts[2] of a text with both delimiters
Part1(text) == SubSeq(text, 2, SecondDelim(text) - 1)
Part2(text) == SubSeq(text, SecondDelim(text) + 1, Len(text))

\* yaml.safe_load of a metadata block: an empty block is an empty YAML
\* document (None); the texts drawn hold one YAML source per block
SafeLoad(block) == IF block = <<>> THEN LoadedNone ELSE block[1].load

IsNone(fm) == fm.t = "NoneType"

extract_frontmatter(text) ==
    IF ~StartsWithDelim(text) THEN LoadedNone
    ELSE IF SecondDelim(text) = 0 THEN LoadedNone
    ELSE IF SafeLoad(Part1(text)).t = "YAMLError" THEN LoadedNone
    ELSE SafeLoad(Part1(text))

(***************************************************************************)
(* validate_essay                                                          *)
(***************************************************************************)
NoFrontmatterErr(name) ==
    [BlankErr EXCEPT !.outer = "no valid frontmatter found", !.file = name]
MissingErr(name, field_name) ==
    [BlankErr EXCEPT !.outer = "missing required field", !.file = name,
                     !.field = field_name]
FieldErr(name, field_name, err) ==
    [err EXCEPT !.outer = "field", !.file = name, !.field = field_name]

\* chars occurs in s as a contiguous run (str.__contains__)
IsSubstring(chars, s) ==
    \E i \in 0..(Len(s) - Len(chars)) :
        \A j \in 1..Len(chars) : s[i + j] = chars[j]

\* "field_name in fm": a key test on a dict, a substring test on a str, an
\* item test on a list; any other object is not iterable
Contains(fm, field_name) ==
    IF fm.t = "dict" THEN Ret(field_name \in DOMAIN fm.d)
    ELSE IF fm.t = "str" THEN Ret(IsSubstring(field_name, fm.v.s))
    ELSE IF fm.t = "list" THEN Ret(InList(PyStr(field_name), fm.v.l))
    ELSE Raise("TypeError")

\* "fm[field_name]": only a dict can be subscripted by a str
Subscript(fm, field_name) ==
    IF fm.t = "dict" THEN Ret(fm.d[field_name]) ELSE Raise("TypeError")

RECURSIVE WrapAll(_, _, _)
WrapAll(name, field_name, errs) ==
    IF errs = <<>> THEN <<>>
    ELSE <<FieldErr(name, field_name, Head(errs))>>
         \o WrapAll(name, field_name, Tail(errs))

\* as EssayField, keeping only the first violation of a present field
EssayFieldFirstOnly(name, fm, field_name, spec) ==
    LET has == Contains(fm, field_name)
    IN  IF ~has.ok THEN has
        ELSE IF ~has.val THEN Ret(<<MissingErr(name, field_name)>>)
        ELSE LET value == Subscript(fm, field_name)
                 errs == validate_field(field_name, value.val, spec)
             IN  IF ~value.ok THEN value
                 ELSE Ret(WrapAll(name, field_name,
                                  IF errs = <<>> THEN <<>> ELSE <<Head(errs)>>))

\* one iteration of the loop over required.items()
EssayField(name, fm, field_name, spec) ==
    LET has == Contains(fm, field_name)
    IN  IF ~has.ok THEN has
        ELSE IF ~has.val THEN Ret(<<MissingErr(name, field_name)>>)
        ELSE LET value == Subscript(fm, field_name)
             IN  IF ~value.ok THEN value
                 ELSE Ret(WrapAll(name, field_name,
                                  validate_field(field_name, value.val, spec)))

\* the loop over required.items(), from item k on, errors accumulated so far
RECURSIVE EssayLoop(_, _, _, _, _)
EssayLoop(name, fm, required, k, errors) ==
    IF k > Len(required) THEN Ret(errors)
    ELSE LET step == EssayField(name, fm, required[k].name, required[k].spec)
         IN  IF ~step.ok THEN step
             ELSE EssayLoop(name, fm, required, k + 1, errors \o step.val)

validate_essay(doc, schema) ==
    LET fm == extract_frontmatter(doc.text)
    IN  IF IsNone(fm) THEN Ret(<<NoFrontmatterErr(doc.name)>>)
        ELSE EssayLoop(doc.name, fm, schema["required_fields"], 1, <<>>)

(***************************************************************************)
(* Specification SpecField: validate_field applied to one (value, spec).   *)
(***************************************************************************)
NoDoc == [name |-> "", text |-> <<>>]
NoSchema == [required_fields |-> <<>>]

IdleField == fvalue = PyNone /\ fspec = Dict0 /\ fresult = NotCalled
IdleEssay == edoc = NoDoc /\ eschema = NoSchema /\ eresult = NotCalled

InitField ==
    /\ fvalue \in Values
    /\ fspec \in FieldSpecs
    /\ fresult = NotCalled

CallValidateField ==
    /\ ~Called(fresult)
    /\ fresult' = Ret(validate_field(<<>>, fvalue, fspec))
    /\ UNCHANGED <<fvalue, fspec, essayVars, indexVars, sysVars>>

(***************************************************************************)
(* Specification SpecEssay: validate_essay applied to one document and     *)
(* one schema.                                                             *)
(***************************************************************************)
KeyTitle == <<"t", "i", "t", "l", "e">>
KeyTags == <<"t", "a", "g", "s">>
KeyCategory == <<"c", "a", "t", "e", "g", "o", "r", "y">>
KeyDate == <<"d", "a", "t", "e">>
KeyWordCount == <<"w", "o", "r", "d", "_", "c", "o", "u", "n", "t">>

StrA == PyStr(<<"a">>)
StrAt == PyStr(<<"@", "a">>)

\* the mappings drawn as metadata records
EssayDicts ==
    {t @@ g @@ w @@ c :
        t \in Opt(KeyTitle, {StrA, PyStr(<<>>), PyInt(1)}),
        g \in Opt(KeyTags, {PyList(<<>>), PyList(<<StrA>>),
                            PyList(<<StrA, PyInt(1)>>), StrA}),
        w \in Opt(KeyWordCount, {PyInt(0), PyInt(MaxInt), PyBool(TRUE)}),
        c \in Opt(KeyCategory, {StrA})}

\* what a metadata block can load as when it is not a mapping
ScalarLoads ==
    {LoadedNone, LoadRaises, LoadedValue(PyStr(KeyTitle)), LoadedValue(StrA),
     LoadedValue(PyInt(1)), LoadedValue(PyList(<<>>)),
     LoadedValue(PyList(<<PyStr(KeyTags)>>))}

WellFormed(load) == <<Delim, Yaml(load), Delim, Word>>

MalformedTexts ==
    {<<>>, <<Word, Word>>, <<Word, Delim, Yaml(LoadedDict(Dict0)), Delim>>,
     <<Delim, Yaml(LoadedDict(Dict0))>>, <<Delim, Delim, Word>>, <<Delim, Delim>>}

EssayTexts ==
    {WellFormed(LoadedDict(d)) : d \in EssayDicts}
    \cup {WellFormed(l) : l \in ScalarLoads}
    \cup MalformedTexts

RequiredField(name, spec) == [name |-> name, spec |-> spec]

RequiredFields ==
    {RequiredField(KeyTitle, ("type" :> "string") @@ ("min_length" :> 1)),
     RequiredField(KeyTitle, ("type" :> "string") @@ ("enum" :> EnumAB)
                             @@ ("min_length" :> 2)),
     RequiredField(KeyTags, ("type" :> "list") @@ ("min_items" :> 2)
                            @@ ("item_type" :> "string")),
     RequiredField(KeyTags, ("type" :> "list") @@ ("max_items" :> 1)
                            @@ ("item_pattern" :> PatternAt)),
     RequiredField(KeyWordCount, ("type" :> "integer") @@ ("min" :> 1))}

\* dict keys are unique
DistinctNames(required) ==
    \A i, j \in 1..Len(required) :
        required[i].name = required[j].name => i = j

MaxRequired == 3

Schemas ==
    {[required_fields |-> r] :
        r \in {q \in SeqsUpTo(RequiredFields, MaxRequired) : DistinctNames(q)}}

InitEssay ==
    /\ edoc \in {[name |-> "a.md", text |-> t] : t \in EssayTexts}
    /\ eschema \in Schemas
    /\ eresult = NotCalled

CallValidateEssay ==
    /\ ~Called(eresult)
    /\ eresult' = validate_essay(edoc, eschema)
    /\ UNCHANGED <<edoc, eschema, fieldVars, indexVars, sysVars>>

(***************************************************************************)
(* indexer.py: extract_essay_data                                          *)
(***************************************************************************)
\* what one chunk of body text contributes to len(clean.split()): markdown
\* punctuation becomes spaces, a URL is removed, anything else is a word
\* ("-" is not in the stripped character class, so a later "---" counts)
WordsIn(chunk) == IF chunk.tok \in {"markup", "url"} THEN 0 ELSE 1

RECURSIVE WordCount(_)
WordCount(body) ==
    IF body = <<>> THEN 0 ELSE WordsIn(Head(body)) + WordCount(Tail(body))

EssayData(name, fm, wc) ==
    [filename |-> name, frontmatter |-> fm, computed_word_count |-> wc]

\* Ret(data), or Ret of nothing (None) as [ok |-> TRUE, val |-> <<>>]
extract_essay_data(doc) ==
    IF ~StartsWithDelim(doc.text) THEN Ret(<<>>)
    ELSE IF SecondDelim(doc.text) = 0 THEN Ret(<<>>)
    ELSE IF SafeLoad(Part1(doc.text)).t = "YAMLError" THEN Ret(<<>>)
    ELSE Ret(<<EssayData(doc.name, SafeLoad(Part1(doc.text)),
                         WordCount(Part2(doc.text)))>>)

(***************************************************************************)
(* collections.Counter: keys in insertion order, as [key, count] pairs     *)
(***************************************************************************)
\* dict key equality: == and equal hashes; True == 1 and False == 0
KeyEq(a, b) ==
    \/ a = b
    \/ a.t \in {"int", "bool"} /\ b.t \in {"int", "bool"} /\ a.n = b.n

Hashable(v) == v.t # "list"

CounterHas(counter, key) == \E i \in 1..Len(counter) : KeyEq(counter[i].key, key)

\* as CounterAdd, setting the count of a key already present back to 1
CounterAddReset(counter, key) ==
    IF CounterHas(counter, key)
        THEN [i \in 1..Len(counter) |->
                IF KeyEq(counter[i].key, key)
                    THEN [counter[i] EXCEPT !.count = 1]
                    ELSE counter[i]]
        ELSE Append(counter, [key |-> key, count |-> 1])

\* counter[key] += 1
CounterAdd(counter, key) ==
    IF CounterHas(counter, key)
        THEN [i \in 1..Len(counter) |->
                IF KeyEq(counter[i].key, key)
                    THEN [counter[i] EXCEPT !.count = @ + 1]
                    ELSE counter[i]]
        ELSE Append(counter, [key |-> key, count |-> 1])

\* as InsertByCount, with x put before the pairs of equal count
InsertByCountBeforeTies(placed, x) ==
    LET notLarger == {i \in 1..Len(placed) : placed[i].count <= x.count}
        at == IF notLarger = {} THEN Len(placed) + 1
              ELSE CHOOSE i \in notLarger : \A j \in notLarger : i <= j
    IN  SubSeq(placed, 1, at - 1) \o <<x>> \o SubSeq(placed, at, Len(placed))

\* where sorted(..., key=lambda x: -x[1]) puts x among the pairs already
\* placed: after every pair whose count is not smaller (the sort is stable)
InsertByCount(placed, x) ==
    LET smaller == {i \in 1..Len(placed) : placed[i].count < x.count}
        at == IF smaller = {} THEN Len(placed) + 1
              ELSE CHOOSE i \in smaller : \A j \in smaller : i <= j
    IN  SubSeq(placed, 1, at - 1) \o <<x>> \o SubSeq(placed, at, Len(placed))

RECURSIVE SortByCountDesc(_, _)
SortByCountDesc(items, placed) ==
    IF items = <<>> THEN placed
    ELSE SortByCountDesc(Tail(items), InsertByCount(placed, Head(items)))

(***************************************************************************)
(* indexer.py: build_essays_index                                          *)
(***************************************************************************)
KeyReadingTime == <<"r", "e", "a", "d", "i", "n", "g", "_", "t", "i", "m", "e">>
KeyPortfolio == <<"p", "o", "r", "t", "f", "o", "l", "i", "o", "_",
                  "r", "e", "l", "e", "v", "a", "n", "c", "e">>
KeyRelatedRepos == <<"r", "e", "l", "a", "t", "e", "d", "_", "r", "e", "p", "o", "s">>
Uncategorized == PyStr(<<"u", "n", "c", "a", "t", "e", "g", "o", "r", "i", "z", "e", "d">>)
Unknown == PyStr(<<"u", "n", "k", "n", "o", "w", "n">>)
EmptyStr == PyStr(<<>>)
EmptyList == PyList(<<>>)

\* "for tag in x": the items of a list, the characters of a str
Iter(v) ==
    IF v.t = "list" THEN Ret(v.l)
    ELSE IF v.t = "str" THEN Ret([i \in 1..Len(v.s) |-> PyStr(<<v.s[i]>>)])
    ELSE Raise("TypeError")

\* the loop "for tag in ...: tags[tag] += 1"
RECURSIVE CountTags(_, _)
CountTags(tags, items) ==
    IF items = <<>> THEN Ret(tags)
    ELSE IF ~Hashable(Head(items)) THEN Raise("TypeError")
    ELSE CountTags(CounterAdd(tags, Head(items)), Tail(items))

IndexEntry(e, d, cat) ==
    [filename |-> e.filename,
     title |-> Get(d, KeyTitle, EmptyStr),
     date |-> Get(d, KeyDate, EmptyStr),
     category |-> cat,
     tags |-> Get(d, KeyTags, EmptyList),
     word_count |-> e.computed_word_count,
     reading_time |-> Get(d, KeyReadingTime, EmptyStr),
     portfolio_relevance |-> Get(d, KeyPortfolio, EmptyStr)]

Acc0 == [categories |-> <<>>, tags |-> <<>>, total_words |-> 0, entries |-> <<>>]

\* one iteration of the loop over essays
IndexEssay(acc, e) ==
    LET fm == e.frontmatter
    IN  IF fm.t # "dict" THEN Raise("AttributeError")
        ELSE LET cat == Get(fm.d, KeyCategory, Uncategorized)
                 items == Iter(Get(fm.d, KeyTags, EmptyList))
             IN  IF ~Hashable(cat) THEN Raise("TypeError")
                 ELSE IF ~items.ok THEN items
                 ELSE LET tags == CountTags(acc.tags, items.val)
                      IN  IF ~tags.ok THEN tags
                          ELSE Ret([categories |-> CounterAdd(acc.categories, cat),
                                    tags |-> tags.val,
                                    total_words |-> acc.total_words
                                                    + e.computed_word_count,
                                    entries |-> Append(acc.entries,
                                                       IndexEntry(e, fm.d, cat))])

RECURSIVE IndexLoop(_, _)
IndexLoop(acc, rest) ==
    IF rest = <<>> THEN Ret(acc)
    ELSE LET step == IndexEssay(acc, Head(rest))
         IN  IF ~step.ok THEN step ELSE IndexLoop(step.val, Tail(rest))

SortCategories(counter) == SortByCountDesc(counter, <<>>)
SortTags(counter) == SortByCountDesc(counter, <<>>)

build_essays_index(list, day) ==
    LET acc == IndexLoop(Acc0, list)
    IN  IF ~acc.ok THEN acc
        ELSE Ret([version |-> "1.1",
                  updated |-> day,
                  generated_by |-> "essay-pipeline indexer v0.1.0",
                  total_essays |-> Len(list),
                  total_words |-> acc.val.total_words,
                  categories |-> SortCategories(acc.val.categories),
                  tag_frequency |-> SortTags(acc.val.tags),
                  essays |-> acc.val.entries])

(***************************************************************************)
(* indexer.py: build_cross_references, build_publication_calendar          *)
(***************************************************************************)
XrefEntry(e, d) ==
    [filename |-> e.filename,
     title |-> Get(d, KeyTitle, EmptyStr),
     related_repos |-> Get(d, KeyRelatedRepos, EmptyList),
     tags |-> Get(d, KeyTags, EmptyList),
     category |-> Get(d, KeyCategory, EmptyStr)]

RECURSIVE XrefLoop(_, _)
XrefLoop(refs, rest) ==
    IF rest = <<>> THEN Ret(refs)
    ELSE IF Head(rest).frontmatter.t # "dict" THEN Raise("AttributeError")
    ELSE XrefLoop(Append(refs, XrefEntry(Head(rest), Head(rest).frontmatter.d)),
                  Tail(rest))

build_cross_references(list, day) ==
    LET refs == XrefLoop(<<>>, list)
    IN  IF ~refs.ok THEN refs
        ELSE Ret([version |-> "1.1", updated |-> day,
                  total |-> Len(refs.val), entries |-> refs.val])

\* the characters that occur in the keys drawn, in code-point order
CodePoints == <<"1", "2", "@", "a", "k", "n", "o", "t", "u", "w">>
Ord(c) == CHOOSE i \in 1..Len(CodePoints) : CodePoints[i] = c

\* a < b on two str, character by character
RECURSIVE StrLess(_, _)
StrLess(a, b) ==
    IF b = <<>> THEN FALSE
    ELSE IF a = <<>> THEN TRUE
    ELSE IF Head(a) = Head(b) THEN StrLess(Tail(a), Tail(b))
    ELSE Ord(Head(a)) < Ord(Head(b))

\* "<" is defined between two str, two numbers, two dates, nothing else
Comparable(a, b) ==
    \/ a.t = "str" /\ b.t = "str"
    \/ a.t \in {"int", "bool"} /\ b.t \in {"int", "bool"}
    \/ a.t = "date" /\ b.t = "date"

KeyLess(a, b) == IF a.t = "str" THEN StrLess(a.s, b.s) ELSE a.n < b.n

InsertByKey(placed, x) ==
    LET larger == {i \in 1..Len(placed) : KeyLess(x.key, placed[i].key)}
        at == IF larger = {} THEN Len(placed) + 1
              ELSE CHOOSE i \in larger : \A j \in larger : i <= j
    IN  SubSeq(placed, 1, at - 1) \o <<x>> \o SubSeq(placed, at, Len(placed))

RECURSIVE SortLoop(_, _)
SortLoop(items, placed) ==
    IF items = <<>> THEN placed
    ELSE SortLoop(Tail(items), InsertByKey(placed, Head(items)))

\* sorted(by_date.items()): the keys are distinct, so the key decides
SortByKey(counter) ==
    IF \E i, j \in 1..Len(counter) :
           i # j /\ ~Comparable(counter[i].key, counter[j].key)
        THEN Raise("TypeError")
        ELSE Ret(SortLoop(counter, <<>>))

RECURSIVE CalendarLoop(_, _)
CalendarLoop(by_date, rest) ==
    IF rest = <<>> THEN Ret(by_date)
    ELSE LET fm == Head(rest).frontmatter
         IN  IF fm.t # "dict" THEN Raise("AttributeError")
             ELSE IF ~Hashable(Get(fm.d, KeyDate, Unknown)) THEN Raise("TypeError")
             ELSE CalendarLoop(CounterAdd(by_date, Get(fm.d, KeyDate, Unknown)),
                               Tail(rest))

build_publication_calendar(list, day) ==
    LET by_date == CalendarLoop(<<>>, list)
    IN  IF ~by_date.ok THEN by_date
        ELSE LET dates == SortByKey(by_date.val)
             IN  IF ~dates.ok THEN dates
                 ELSE Ret([version |-> "1.1", updated |-> day,
                           total_essays |-> Len(list), dates |-> dates.val])

(***************************************************************************)
(* json.dumps: a value keeps its type; a dict key becomes a string; a      *)
(* datetime.date is not serializable                                       *)
(***************************************************************************)
Digits == <<"0", "1", "2", "3", "4", "5", "6", "7", "8", "9">>

RECURSIVE IntChars(_)
IntChars(n) ==
    IF n < 0 THEN <<"-">> \o IntChars(-n)
    ELSE IF n < 10 THEN <<Digits[n + 1]>>
    ELSE IntChars(n \div 10) \o <<Digits[(n % 10) + 1]>>

JsonKey(k) ==
    IF k.t = "str" THEN k.s
    ELSE IF k.t = "int" THEN IntChars(k.n)
    ELSE IF k.t = "bool" THEN (IF k.n = 1 THEN <<"t", "r", "u", "e">>
                               ELSE <<"f", "a", "l", "s", "e">>)
    ELSE <<"n", "u", "l", "l">>

JsonKeyOk(k) == k.t \in {"str", "int", "bool", "NoneType"}

JsonValueOk(v) ==
    /\ v.t # "date"
    /\ \A i \in 1..Len(v.l) : v.l[i].t # "date"

JsonCounter(counter) ==
    [i \in 1..Len(counter) |->
        [key |-> JsonKey(counter[i].key), count |-> counter[i].count]]

JsonCounterOk(counter) == \A i \in 1..Len(counter) : JsonKeyOk(counter[i].key)

DumpIndex(idx) ==
    IF /\ JsonCounterOk(idx.categories)
       /\ JsonCounterOk(idx.tag_frequency)
       /\ \A i \in 1..Len(idx.essays) :
             /\ JsonValueOk(idx.essays[i].title)
             /\ JsonValueOk(idx.essays[i].date)
             /\ JsonValueOk(idx.essays[i].category)
             /\ JsonValueOk(idx.essays[i].tags)
             /\ JsonValueOk(idx.essays[i].reading_time)
             /\ JsonValueOk(idx.essays[i].portfolio_relevance)
        THEN Ret([idx EXCEPT !.categories = JsonCounter(@),
                             !.tag_frequency = JsonCounter(@)])
        ELSE Raise("TypeError")

DumpXrefs(xrefs) ==
    IF \A i \in 1..Len(xrefs.entries) :
           /\ JsonValueOk(xrefs.entries[i].title)
           /\ JsonValueOk(xrefs.entries[i].related_repos)
           /\ JsonValueOk(xrefs.entries[i].tags)
           /\ JsonValueOk(xrefs.entries[i].category)
        THEN Ret(xrefs)
        ELSE Raise("TypeError")

DumpCalendar(calendar) ==
    IF JsonCounterOk(calendar.dates)
        THEN Ret([calendar EXCEPT !.dates = JsonCounter(@)])
        ELSE Raise("TypeError")

(***************************************************************************)
(* Specification SpecIndex: build_essays_index applied to a list of        *)
(* parsed essays.                                                          *)
(***************************************************************************)
FileNames == <<"a.md", "b.md", "c.md">>

IndexDicts ==
    {c @@ g :
        c \in Opt(KeyCategory, {StrA, StrAt, PyInt(1), PyBool(TRUE), EmptyList}),
        g \in Opt(KeyTags, {PyList(<<StrAt, StrA>>), PyList(<<StrA, StrAt, StrA>>),
                            PyList(<<PyInt(1), StrAt>>), PyStr(<<"a", "t">>),
                            PyNone})}

IndexLoads == {LoadedDict(d) : d \in IndexDicts} \cup {LoadedNone, LoadedValue(StrA)}

EssayLists ==
    {[i \in 1..Len(q) |-> EssayData(FileNames[i], q[i].fm, q[i].wc)] :
        q \in SeqsUpTo({[fm |-> l, wc |-> 1] : l \in IndexLoads}
                       \cup {[fm |-> LoadedDict(Dict0), wc |-> 0]}, MaxEssays)}

InitIndex ==
    /\ essays \in EssayLists
    /\ index = NotCalled

CallBuildEssaysIndex ==
    /\ ~Called(index)
    /\ index' = build_essays_index(essays, 0)
    /\ UNCHANGED <<essays, fieldVars, essayVars, sysVars>>

(***************************************************************************)
(* schema_loader.py: load_schema.  The schema path holds nothing, or a     *)
(* YAML source that loads as an object of type t (a dict d when "dict").   *)
(***************************************************************************)
Access(op, path) == [op |-> op, path |-> path]

SchemaPath == "schema.yaml"
PostsDir == "_posts"
OutputDir == "data"

load_schema(file) ==
    IF ~file.exists THEN Raise("FileNotFoundError")
    ELSE IF file.t = "YAMLError" THEN Raise("YAMLError")
    ELSE IF file.t # "dict" \/ "required_fields" \notin DOMAIN file.d
        THEN Raise("ValueError")
    ELSE Ret(file.d)

\* what load_schema touches: path.exists(), then open(path)
LoadSchemaIo(file) ==
    <<Access("exists", SchemaPath)>>
    \o If(file.exists, <<Access("open", SchemaPath)>>)

(***************************************************************************)
(* validator.py: validate_all                                              *)
(***************************************************************************)
\* sorted(Path(posts_dir).glob("*.md")): the names present, in order
RECURSIVE SortedGlob(_, _)
SortedGlob(dir, k) ==
    IF k > Len(FileNames) THEN <<>>
    ELSE If(FileNames[k] \in DOMAIN dir, <<FileNames[k]>>) \o SortedGlob(dir, k + 1)

Doc(dir, name) == [name |-> name, text |-> dir[name]]

NoFilesErr == [BlankErr EXCEPT !.outer = "No .md files found in", !.file = PostsDir]

Outcome(r, accesses) == [res |-> r, io |-> accesses]

\* the loop over posts, from post k on
RECURSIVE ValidateLoop(_, _, _, _, _, _)
ValidateLoop(dir, names, schema, k, all_errors, accesses) ==
    IF k > Len(names) THEN Outcome(Ret(all_errors), accesses)
    ELSE LET read == Append(accesses, Access("read_text", names[k]))
             errs == validate_essay(Doc(dir, names[k]), schema)
         IN  IF ~errs.ok THEN Outcome(errs, read)
             ELSE ValidateLoop(dir, names, schema, k + 1,
                               all_errors \o errs.val, read)

\* as ValidatePosts, without the check for an empty list of posts
ValidatePostsNoEmptyCheck(dir, schema, accesses) ==
    ValidateLoop(dir, SortedGlob(dir, 1), schema, 1, <<>>,
                 Append(accesses, Access("glob", PostsDir)))

\* validate_all once the schema is loaded
ValidatePosts(dir, schema, accesses) ==
    LET names == SortedGlob(dir, 1)
        globbed == Append(accesses, Access("glob", PostsDir))
    IN  IF names = <<>> THEN Outcome(Ret(<<NoFilesErr>>), globbed)
        ELSE ValidateLoop(dir, names, schema, 1, <<>>, globbed)

\* as validate_all, with the posts globbed and read before the schema is loaded
ValidateAllPostsFirst(dir, file) ==
    LET schema == load_schema(file)
        names == SortedGlob(dir, 1)
        touched == <<Access("glob", PostsDir)>>
                   \o [k \in 1..Len(names) |-> Access("read_text", names[k])]
                   \o LoadSchemaIo(file)
    IN  IF ~schema.ok THEN Outcome(schema, touched)
        ELSE ValidatePosts(dir, schema.val, LoadSchemaIo(file))

validate_all(dir, file) ==
    LET schema == load_schema(file)
    IN  IF ~schema.ok THEN Outcome(schema, LoadSchemaIo(file))
        ELSE ValidatePosts(dir, schema.val, LoadSchemaIo(file))

(***************************************************************************)
(* indexer.py: index_all.  The output directory holds three files; a file  *)
(* is <<>> while it does not exist and <<content>> once written.           *)
(***************************************************************************)
NoFiles == [index |-> <<>>, xrefs |-> <<>>, calendar |-> <<>>]

\* the loop over posts: "if data: essays.append(data)" (a dict with three
\* keys is truthy, whatever its frontmatter)
RECURSIVE ReadEssays(_, _, _)
ReadEssays(dir, names, k) ==
    IF k > Len(names) THEN <<>>
    ELSE extract_essay_data(Doc(dir, names[k])).val \o ReadEssays(dir, names, k + 1)

ReadIo(names) == [k \in 1..Len(names) |-> Access("read_text", names[k])]

Summary(list, idx) ==
    [essays |-> Len(list), categories |-> Len(idx.categories),
     total_words |-> idx.total_words]

IndexOutcome(r, files, accesses) == [res |-> r, out |-> files, io |-> accesses]

\* the three write_text calls, each after its json.dumps
WriteFiles(list, idx, xrefs, calendar, files, accesses) ==
    LET t1 == DumpIndex(idx)
        f1 == [files EXCEPT !.index = <<t1.val>>]
        a1 == Append(accesses, Access("write_text", "essays-index.json"))
        t2 == DumpXrefs(xrefs)
        f2 == [f1 EXCEPT !.xrefs = <<t2.val>>]
        a2 == Append(a1, Access("write_text", "cross-references.json"))
        t3 == DumpCalendar(calendar)
        f3 == [f2 EXCEPT !.calendar = <<t3.val>>]
        a3 == Append(a2, Access("write_text", "publication-calendar.json"))
    IN  IF ~t1.ok THEN IndexOutcome(t1, files, accesses)
        ELSE IF ~t2.ok THEN IndexOutcome(t2, f1, a1)
        ELSE IF ~t3.ok THEN IndexOutcome(t3, f2, a2)
        ELSE IndexOutcome(Ret(Summary(list, idx)), f3, a3)

index_all(dir, files, day) ==
    LET names == SortedGlob(dir, 1)
        list == ReadEssays(dir, names, 1)
        accesses == <<Access("glob", PostsDir)>> \o ReadIo(names)
                    \o <<Access("mkdir", OutputDir)>>
        idx == build_essays_index(list, day)
        xrefs == build_cross_references(list, day)
        calendar == build_publication_calendar(list, day)
    IN  IF ~idx.ok THEN IndexOutcome(idx, files, accesses)
        ELSE IF ~xrefs.ok THEN IndexOutcome(xrefs, files, accesses)
        ELSE IF ~calendar.ok THEN IndexOutcome(calendar, files, accesses)
        ELSE WriteFiles(list, idx.val, xrefs.val, calendar.val, files, accesses)

(***************************************************************************)
(* The corpus and the schema files drawn for the entry points.             *)
(***************************************************************************)
GoodDict ==
    (KeyTitle :> StrA) @@ (KeyCategory :> StrA) @@ (KeyTags :> PyList(<<StrA, StrAt>>))
    @@ (KeyDate :> PyStr(<<"2">>))
SparseDict == KeyTags :> PyList(<<StrA>>)
DateReposDict ==
    (KeyTitle :> StrA) @@ (KeyRelatedRepos :> PyList(<<PyDate(1)>>))
    @@ (KeyDate :> PyStr(<<"1">>))

GoodText == WellFormed(LoadedDict(GoodDict))
SparseText == <<Delim, Yaml(LoadedDict(SparseDict)), Delim, Word, Markup, Url, Delim, Word>>
DateReposText == WellFormed(LoadedDict(DateReposDict))
EmptyBlockText == <<Delim, Delim, Word>>
BareText == <<Word, Word>>
UnclosedText == <<Delim, Yaml(LoadedDict(GoodDict))>>
BrokenYamlText == WellFormed(LoadRaises)
ScalarStrText == WellFormed(LoadedValue(PyStr(KeyTitle)))
ScalarIntText == WellFormed(LoadedValue(PyInt(1)))
ListText == WellFormed(LoadedValue(PyList(<<PyStr(KeyTags)>>)))
NullText == WellFormed(LoadedNone)

\* texts whose metadata block is malformed or absent
NoMetadataTexts == {EmptyBlockText, BareText, UnclosedText, BrokenYamlText}

ValidateTexts ==
    {GoodText, SparseText} \cup NoMetadataTexts
    \cup {ScalarStrText, ScalarIntText, ListText, NullText}
IndexTexts ==
    {GoodText, SparseText, DateReposText} \cup NoMetadataTexts

SchemaFile(exists, t, d) == [exists |-> exists, t |-> t, d |-> d]
SchemaMissing == SchemaFile(FALSE, "", Dict0)
SchemaNotDict == SchemaFile(TRUE, "list", Dict0)
SchemaBroken == SchemaFile(TRUE, "YAMLError", Dict0)
SchemaNoKey == SchemaFile(TRUE, "dict", "version" :> <<>>)
SchemaTitleTags ==
    SchemaFile(TRUE, "dict",
        "required_fields" :>
            <<RequiredField(KeyTitle, ("type" :> "string") @@ ("min_length" :> 1)),
              RequiredField(KeyTags, ("type" :> "list") @@ ("min_items" :> 2)
                                     @@ ("item_type" :> "string"))>>)
SchemaNoFields == SchemaFile(TRUE, "dict", "required_fields" :> <<>>)
SchemaFiles ==
    {SchemaMissing, SchemaNotDict, SchemaBroken, SchemaNoKey, SchemaTitleTags,
     SchemaNoFields}

ValidateFiles == {FileNames[i] : i \in 1..3}
IndexFiles == {FileNames[i] : i \in 1..2}

(***************************************************************************)
(* Actions on the posts directory, the schema path and the clock; the two  *)
(* entry points.  vres and ires describe the last call made on the         *)
(* directory as it is: a change of what the call read forgets them.        *)
(***************************************************************************)
IdleIndex == essays = <<>> /\ index = NotCalled
IdleSys ==
    /\ posts = Dict0 /\ schemaFile = SchemaMissing /\ out = NoFiles /\ today = 0
    /\ vres = NotCalled /\ vio = <<>> /\ ires = NotCalled /\ iio = <<>>

Forget ==
    vres' = NotCalled /\ vio' = <<>> /\ ires' = NotCalled /\ iio' = <<>>

WritePost(files, texts) ==
    \E f \in files, t \in texts :
        /\ IF f \in DOMAIN posts THEN posts[f] # t ELSE TRUE
        /\ posts' = (f :> t) @@ posts
        /\ Forget
        /\ UNCHANGED <<schemaFile, out, today, pureVars>>

RemovePost ==
    \E f \in DOMAIN posts :
        /\ posts' = [g \in DOMAIN posts \ {f} |-> posts[g]]
        /\ Forget
        /\ UNCHANGED <<schemaFile, out, today, pureVars>>

SetSchema ==
    \E file \in SchemaFiles :
        /\ file # schemaFile
        /\ schemaFile' = file
        /\ Forget
        /\ UNCHANGED <<posts, out, today, pureVars>>

Tick ==
    /\ today < MaxDay
    /\ today' = today + 1
    /\ Forget
    /\ UNCHANGED <<posts, schemaFile, out, pureVars>>

CallValidateAll ==
    LET r == validate_all(posts, schemaFile)
    IN  /\ vres' = r.res
        /\ vio' = r.io
        /\ UNCHANGED <<posts, schemaFile, out, today, ires, iio, pureVars>>

CallIndexAll ==
    LET r == index_all(posts, out, today)
    IN  /\ ires' = r.res
        /\ iio' = r.io
        /\ out' = r.out
        /\ UNCHANGED <<posts, schemaFile, today, vres, vio, pureVars>>

(***************************************************************************)
(* The specifications.                                                     *)
(***************************************************************************)
NextField == CallValidateField
StartField == InitField /\ IdleEssay /\ IdleIndex /\ IdleSys
SpecField == StartField /\ [][NextField]_vars

NextEssay == CallValidateEssay
StartEssay == IdleField /\ InitEssay /\ IdleIndex /\ IdleSys
SpecEssay == StartEssay /\ [][NextEssay]_vars

NextIndex == CallBuildEssaysIndex
StartIndex == IdleField /\ IdleEssay /\ InitIndex /\ IdleSys
SpecIndex == StartIndex /\ [][NextIndex]_vars

NextValidateAll ==
    \/ WritePost(ValidateFiles, ValidateTexts)
    \/ RemovePost
    \/ SetSchema
    \/ CallValidateAll
StartValidateAll == IdleField /\ IdleEssay /\ IdleIndex /\ IdleSys
SpecValidateAll == StartValidateAll /\ [][NextValidateAll]_vars

InitIndexAll ==
    /\ posts = Dict0 /\ schemaFile = SchemaTitleTags /\ out = NoFiles /\ today = 0
    /\ vres = NotCalled /\ vio = <<>> /\ ires = NotCalled /\ iio = <<>>
NextIndexAll ==
    \/ WritePost(IndexFiles, IndexTexts)
    \/ RemovePost
    \/ Tick
    \/ CallValidateAll
    \/ CallIndexAll
StartIndexAll == IdleField /\ IdleEssay /\ IdleIndex /\ InitIndexAll
SpecIndexAll == StartIndexAll /\ [][NextIndexAll]_vars

(***************************************************************************)
(* Properties of validate_field (SpecField).                               *)
(***************************************************************************)
FieldType == Get(fspec, "type", "")
FieldErrors == fresult.val
KindCount(errs, kind) == Cardinality({i \in 1..Len(errs) : errs[i].kind = kind})

\* C8: for a spec of type integer, a bool (like every value that is not an
\* int) yields exactly one violation, "expected integer, got <type>", and no
\* minimum check, whatever min the spec declares.
C8_BoolIsNotInteger ==
    (Called(fresult) /\ FieldType = "integer" /\ fvalue.t # "int") =>
        /\ Len(FieldErrors) = 1
        /\ FieldErrors[1].kind = "expected integer, got"
        /\ FieldErrors[1].got = fvalue.t
        /\ KindCount(FieldErrors, "below minimum") = 0

\* C8 witness: False (0) validated against min 1, which an int 0 would fail
C8_Witness ==
    /\ Called(fresult)
    /\ FieldType = "integer"
    /\ fvalue = PyBool(FALSE)
    /\ "min" \in DOMAIN fspec
    /\ fspec["min"] = 1
    /\ FieldErrors[1].got = "bool"

DeclaresEnum == FieldType = "string" /\ "enum" \in DOMAIN fspec
OutsideEnum == DeclaresEnum /\ \A i \in 1..Len(fspec["enum"]) : fspec["enum"][i] # fvalue

\* C9 as stated: for a string field with a declared enum, a value outside
\* the enum produces exactly one violation, the one naming the allowed set
\* and the offending value.
C9_OnlyTheEnumViolation ==
    (Called(fresult) /\ OutsideEnum) =>
        /\ Len(FieldErrors) = 1
        /\ FieldErrors[1].kind = "must be one of"
        /\ FieldErrors[1].allowed = fspec["enum"]
        /\ FieldErrors[1].value = fvalue

OtherStringKinds == {"too short", "too long", "does not match pattern"}

\* C9 amended: for a string field with a declared enum, a str outside the
\* enum produces exactly one enum violation, the first of the list, naming
\* the allowed set and the offending value; every other violation reports
\* another declared constraint (min_length, max_length, pattern), and there
\* is none when the spec declares only the enum.  A value that is not a str
\* produces the type mismatch alone.
C9_OneEnumViolation ==
    (Called(fresult) /\ OutsideEnum) =>
        IF fvalue.t = "str"
            THEN /\ KindCount(FieldErrors, "must be one of") = 1
                 /\ FieldErrors[1].kind = "must be one of"
                 /\ FieldErrors[1].allowed = fspec["enum"]
                 /\ FieldErrors[1].value = fvalue
                 /\ \A i \in 2..Len(FieldErrors) :
                        FieldErrors[i].kind \in OtherStringKinds
                 /\ DOMAIN fspec = {"type", "enum"} => Len(FieldErrors) = 1
            ELSE /\ Len(FieldErrors) = 1
                 /\ FieldErrors[1].kind = "expected string, got"
                 /\ FieldErrors[1].got = fvalue.t

\* C9 witness: a str outside the enum that is also too short
C9_Witness ==
    /\ Called(fresult)
    /\ OutsideEnum
    /\ fvalue = PyStr(<<"t">>)
    /\ "min_length" \in DOMAIN fspec
    /\ Len(FieldErrors) = 2
    /\ FieldErrors[1].kind = "must be one of"
    /\ FieldErrors[2].kind = "too short"

(***************************************************************************)
(* Properties of validate_essay (SpecEssay).                               *)
(***************************************************************************)
EssayFm == extract_frontmatter(edoc.text)
Required == eschema["required_fields"]
EssayErrors == eresult.val

\* the position of a field name among the schema's required fields; 0 if none
SchemaPos(field_name) ==
    IF \E k \in 1..Len(Required) : Required[k].name = field_name
        THEN CHOOSE k \in 1..Len(Required) : Required[k].name = field_name
        ELSE 0

\* the positions, in the error list, of the errors about one field
ErrorsAbout(field_name) ==
    {i \in 1..Len(EssayErrors) : EssayErrors[i].field = field_name}

\* C3: for a document with a metadata record, validate_essay reports the
\* schema's required fields in declaration order: an absent field gets exactly
\* one "missing required field" error and no field violation; a present field
\* gets exactly what validate_field returns for it, in the same order, each
\* with the filename and the field name; a field the schema does not name
\* gets no error.
C3_ErrorsFollowSchema ==
    (Called(eresult) /\ EssayFm.t = "dict") =>
        /\ eresult.ok
        /\ \A i \in 1..Len(EssayErrors) :
              /\ EssayErrors[i].file = edoc.name
              /\ SchemaPos(EssayErrors[i].field) # 0
        /\ \A i, j \in 1..Len(EssayErrors) :
              i < j => SchemaPos(EssayErrors[i].field) <= SchemaPos(EssayErrors[j].field)
        /\ \A k \in 1..Len(Required) :
              LET about == ErrorsAbout(Required[k].name)
                  first == IF about = {} THEN 0
                           ELSE CHOOSE i \in about : \A j \in about : i <= j
              IN  IF Required[k].name \notin DOMAIN EssayFm.d
                    THEN /\ Cardinality(about) = 1
                         /\ EssayErrors[first].outer = "missing required field"
                         /\ EssayErrors[first].kind = ""
                    ELSE LET found == validate_field(Required[k].name,
                                                     EssayFm.d[Required[k].name],
                                                     Required[k].spec)
                         IN  /\ Cardinality(about) = Len(found)
                             /\ \A n \in 1..Len(found) :
                                   EssayErrors[first + n - 1] =
                                       [found[n] EXCEPT !.outer = "field",
                                                        !.file = edoc.name,
                                                        !.field = Required[k].name]

\* C3 witness: tags present with two violations, title absent, a category
\* the schema does not name, tags declared before title
C3_Witness ==
    /\ Called(eresult)
    /\ EssayFm.t = "dict"
    /\ DOMAIN EssayFm.d = {KeyTags, KeyCategory}
    /\ Len(Required) = 2
    /\ Required[1].name = KeyTags
    /\ Required[2].name = KeyTitle
    /\ Len(EssayErrors) = 3
    /\ EssayErrors[1].kind = "too many items"
    /\ EssayErrors[2].kind = "item does not match pattern"
    /\ EssayErrors[3].outer = "missing required field"

(***************************************************************************)
(* Properties of build_essays_index (SpecIndex).                           *)
(***************************************************************************)
Built == Called(index) /\ index.ok

RECURSIVE SumCounts(_)
SumCounts(counter) ==
    IF counter = <<>> THEN 0 ELSE Head(counter).count + SumCounts(Tail(counter))

\* what "for tag in fm.get('tags', [])" visits in one essay
TagsOf(e) ==
    LET v == Get(e.frontmatter.d, KeyTags, EmptyList)
    IN  IF v.t = "str" THEN [i \in 1..Len(v.s) |-> PyStr(<<v.s[i]>>)] ELSE v.l

RECURSIVE AllTags(_)
AllTags(list) == IF list = <<>> THEN <<>> ELSE TagsOf(Head(list)) \o AllTags(Tail(list))

AllCategories ==
    [i \in 1..Len(essays) |-> Get(essays[i].frontmatter.d, KeyCategory, Uncategorized)]

CountOf(counter, key) ==
    SumCounts(SelectSeq(counter, LAMBDA pair : pair.key = key))

\* C4: the category counts sum to total_essays, with the documents that have
\* no category counted under "uncategorized"; the tag_frequency counts sum to
\* the number of tag occurrences over all documents; total_essays is the
\* number of entries in essays.
C4_CountsAddUp ==
    Built =>
        /\ SumCounts(index.val.categories) = index.val.total_essays
        /\ CountOf(index.val.categories, Uncategorized) =
               Cardinality({i \in 1..Len(essays) :
                               KeyCategory \notin DOMAIN essays[i].frontmatter.d})
        /\ SumCounts(index.val.tag_frequency) = Len(AllTags(essays))
        /\ index.val.total_essays = Len(index.val.essays)
        /\ index.val.total_essays = Len(essays)

\* C4 witness: two essays of one category, the same tag in both
C4_Witness ==
    /\ Built
    /\ Len(essays) = 2
    /\ Len(index.val.categories) = 1
    /\ index.val.categories[1].count = 2
    /\ Len(AllTags(essays)) = 4
    /\ Len(index.val.tag_frequency) = 2

\* where a key is first met in a traversal
FirstSeen(traversal, key) ==
    CHOOSE i \in 1..Len(traversal) :
        /\ KeyEq(traversal[i], key)
        /\ \A j \in 1..(i - 1) : ~KeyEq(traversal[j], key)

DescendingStable(table, traversal) ==
    \A i, j \in 1..Len(table) :
        i < j =>
            /\ table[i].count >= table[j].count
            /\ table[i].count = table[j].count =>
                   FirstSeen(traversal, table[i].key) < FirstSeen(traversal, table[j].key)

\* C10: categories and tag_frequency are in descending count order, and two
\* keys of equal count are in the order of their first occurrence in the
\* traversal of the corpus (documents in order, tags in list order).
C10_DescendingStable ==
    Built =>
        /\ DescendingStable(index.val.categories, AllCategories)
        /\ DescendingStable(index.val.tag_frequency, AllTags(essays))

\* C10 witness: three tags; the first one met is the rarest and ends last,
\* the other two tie and keep their order
C10_Witness ==
    /\ Built
    /\ Len(index.val.tag_frequency) = 3
    /\ index.val.tag_frequency[1].count = index.val.tag_frequency[2].count
    /\ index.val.tag_frequency[2].count > index.val.tag_frequency[3].count
    /\ FirstSeen(AllTags(essays), index.val.tag_frequency[3].key) = 1
    /\ Len(index.val.categories) = 2
    /\ index.val.categories[1].count = index.val.categories[2].count

(***************************************************************************)
(* Properties of validate_all (SpecValidateAll).                           *)
(***************************************************************************)
SchemaLoads == load_schema(schemaFile).ok
Validated == Called(vres)

RECURSIVE EssayErrorLists(_, _)
EssayErrorLists(names, schema) ==
    IF names = <<>> THEN <<>>
    ELSE validate_essay(Doc(posts, Head(names)), schema).val
         \o EssayErrorLists(Tail(names), schema)

\* C1: for a non-empty corpus and a loaded schema, whatever the metadata
\* blocks parse to, validate_all returns, and returns the concatenation of
\* validate_essay's error lists in sorted-filename order.
C1_EveryDocumentReported ==
    (Validated /\ SchemaLoads /\ DOMAIN posts # {}) =>
        /\ vres.ok
        /\ vres.val = EssayErrorLists(SortedGlob(posts, 1), schemaFile.d)

TouchesPosts(accesses) ==
    \E i \in 1..Len(accesses) : accesses[i].op \in {"glob", "read_text"}

\* C6: when the schema path does not exist or the parsed schema lacks
\* required_fields, validate_all raises (FileNotFoundError, ValueError) with
\* no posts globbed or read, and returns no error list, whether or not the
\* posts directory is empty.
C6_SchemaFailureFirst ==
    Validated =>
        /\ ~schemaFile.exists =>
               ~vres.ok /\ vres.exc = "FileNotFoundError" /\ ~TouchesPosts(vio)
        /\ (/\ schemaFile.exists
            /\ schemaFile.t # "YAMLError"
            /\ (schemaFile.t # "dict" \/ "required_fields" \notin DOMAIN schemaFile.d)) =>
               ~vres.ok /\ vres.exc = "ValueError" /\ ~TouchesPosts(vio)

\* C6 witness: three posts in the directory, a schema without required_fields
C6_Witness ==
    /\ Validated
    /\ schemaFile = SchemaNoKey
    /\ Cardinality(DOMAIN posts) = 3
    /\ vres.exc = "ValueError"

(***************************************************************************)
(* Properties of index_all and validate_all on one directory               *)
(* (SpecIndexAll).                                                         *)
(***************************************************************************)
Indexed == Called(ires)

FilenamesOf(entries) == {entries[i].filename : i \in 1..Len(entries)}

\* the document named f has an entry in essays-index and cross-references
InIndexFiles(f) ==
    /\ out.index # <<>> /\ f \in FilenamesOf(out.index[1].essays)
    /\ out.xrefs # <<>> /\ f \in FilenamesOf(out.xrefs[1].entries)

ReportsNoFrontmatter(f) ==
    validate_essay(Doc(posts, f), schemaFile.d) = Ret(<<NoFrontmatterErr(f)>>)

\* C2: a document whose metadata block is malformed or absent is left out of
\* the three index files by index_all, without raising and without being
\* counted in a total, and gets exactly the one error "no valid frontmatter
\* found" from validate_essay; a document is indexed if and only if
\* validate_essay does not report that error.  (Stated on corpora whose other
\* documents are well-formed mappings.)
C2_MalformedLeftOut ==
    (Indexed /\ \A f \in DOMAIN posts :
                    posts[f] \in NoMetadataTexts \cup {GoodText, SparseText}) =>
        /\ ires.ok
        /\ \A f \in DOMAIN posts :
              /\ posts[f] \in NoMetadataTexts => ReportsNoFrontmatter(f)
              /\ InIndexFiles(f) <=> ~ReportsNoFrontmatter(f)
        /\ LET kept == {f \in DOMAIN posts : posts[f] \notin NoMetadataTexts}
           IN  /\ ires.val.essays = Cardinality(kept)
               /\ out.index[1].total_essays = Cardinality(kept)
               /\ out.xrefs[1].total = Cardinality(kept)
               /\ out.calendar[1].total_essays = Cardinality(kept)

\* C5: after any sequence of index_all runs the three files are a function of
\* the corpus of the last run and of its date: they are what that run writes
\* into an empty directory, and no entry of an earlier corpus survives.
C5_FilesOfLastRun ==
    Indexed =>
        /\ out = index_all(posts, NoFiles, today).out
        /\ out.index # <<>> =>
               FilenamesOf(out.index[1].essays) \subseteq DOMAIN posts
        /\ out.xrefs # <<>> =>
               FilenamesOf(out.xrefs[1].entries) \subseteq DOMAIN posts

\* C7: on a directory with no posts and a loadable schema, validate_all
\* returns exactly the one "no files found" error, and index_all returns and
\* writes the three files describing zero documents.
C7_EmptyCorpus ==
    DOMAIN posts = {} =>
        /\ Validated =>
               /\ vres.ok
               /\ Len(vres.val) = 1
               /\ vres.val[1].outer = "No .md files found in"
        /\ Indexed =>
               /\ ires.ok
               /\ ires.val = [essays |-> 0, categories |-> 0, total_words |-> 0]
               /\ Len(out.index) = 1 /\ Len(out.xrefs) = 1 /\ Len(out.calendar) = 1
               /\ out.index[1].total_essays = 0
               /\ out.index[1].total_words = 0
               /\ out.index[1].categories = <<>>
               /\ out.index[1].tag_frequency = <<>>
               /\ out.index[1].essays = <<>>
               /\ out.index[1].updated = today
               /\ out.xrefs[1].total = 0
               /\ out.xrefs[1].entries = <<>>
               /\ out.calendar[1].total_essays = 0
               /\ out.calendar[1].dates = <<>>

\* C7 witness: both entry points called on the emptied directory, a day
\* after the first index was written
C7_Witness ==
    /\ DOMAIN posts = {}
    /\ Validated
    /\ Indexed
    /\ today = 1
    /\ SchemaLoads
    /\ Len(vres.val) = 1
    /\ out.index[1].total_essays = 0

====
